---- MODULE Spec2Model ----
(***************************************************************************)
(* music21/sorting.py: the SortTuple named tuple, its comparison protocol  *)
(* against other tuples and against bare offsets, and its field-wise       *)
(* modify / add / sub operations.                                          *)
(*                                                                         *)
(* Python values are records tagged with their type in field t.  Numbers   *)
(* keep Python's distinction between int (exact) and float (rounded to a   *)
(* fixed number of mantissa bits after every operation; +-inf and nan are  *)
(* floats).  A SortTuple is a tuple: it carries its six items in order.    *)
(***************************************************************************)
EXTENDS Integers, Sequences, FiniteSets, TLC

VARIABLES heap, made, last

vars == <<heap, made, last>>

(***************************************************************************)
(* Bounds of the model.                                                    *)
(***************************************************************************)
\* mantissa width of the model's float (53 in CPython)
MantissaBits == 3
\* number of objects a behaviour of Spec may allocate, inputs included
MaxHeap == 4
\* number of fields in which a compared key may differ from the default key
MaxDiff == 2

(***************************************************************************)
(* Python numbers.                                                         *)
(***************************************************************************)
PyInt(n) == [t |-> "int", v |-> n]

PyFloat(n) == [t |-> "float", v |-> n]

INFINITY == [t |-> "inf", v |-> 1]

NegINFINITY == [t |-> "inf", v |-> -1]

NaN == [t |-> "nan", v |-> 0]

None == [t |-> "NoneType", v |-> 0]

NotImplemented == [t |-> "NotImplementedType", v |-> 0]

PyTrue == [t |-> "bool", v |-> 1]

PyFalse == [t |-> "bool", v |-> 0]

Bool(b) == IF b THEN PyTrue ELSE PyFalse

\* bool(x) of a comparison result; NotImplemented is truthy
Truthy(x) == x # PyFalse

IsNumber(x) == x.t \in {"int", "float", "inf", "nan"}

IsReal(x) == x.t \in {"int", "float", "inf"}

IsFinite(x) == x.t \in {"int", "float"}

\* x == y on numbers: nan equals nothing, int and float compare by value
NumEq(x, y) ==
    /\ x.t # "nan"
    /\ y.t # "nan"
    /\ IF x.t = "inf" \/ y.t = "inf" THEN x.t = y.t /\ x.v = y.v ELSE x.v = y.v

\* x < y on numbers
NumLt(x, y) ==
    /\ x.t # "nan"
    /\ y.t # "nan"
    /\ CASE x.t = "inf" /\ y.t = "inf" -> x.v < y.v
         [] x.t = "inf" -> x.v < 0
         [] y.t = "inf" -> y.v > 0
         [] OTHER -> x.v < y.v

RECURSIVE Ulp(_, _)
\* the spacing s of the floats around magnitude n
Ulp(n, s) == IF n < (2 ^ MantissaBits) * s THEN s ELSE Ulp(n, 2 * s)

\* round a magnitude to MantissaBits significant bits, ties to even
RoundAbs(n) ==
    LET s == Ulp(n, 1)
        q == n \div s
        r == n % s
    IN  IF 2 * r < s THEN q * s
        ELSE IF 2 * r > s THEN (q + 1) * s
        ELSE IF q % 2 = 0 THEN q * s
        ELSE (q + 1) * s

Round(n) == IF n < 0 THEN -RoundAbs(-n) ELSE RoundAbs(n)

\* float(x)
ToFloat(x) == IF x.t = "int" THEN PyFloat(Round(x.v)) ELSE x

PyNeg(x) ==
    CASE x.t = "nan" -> x
      [] OTHER -> [t |-> x.t, v |-> -x.v]

FloatAdd(x, y) ==
    CASE x.t = "nan" \/ y.t = "nan" -> NaN
      [] x.t = "inf" /\ y.t = "inf" -> IF x.v = y.v THEN x ELSE NaN
      [] x.t = "inf" -> x
      [] y.t = "inf" -> y
      [] OTHER -> PyFloat(Round(x.v + y.v))

\* x + y: exact on two ints, a rounded float otherwise
PyAdd(x, y) ==
    IF x.t = "int" /\ y.t = "int" THEN PyInt(x.v + y.v)
    ELSE FloatAdd(ToFloat(x), ToFloat(y))

\* x - y
PySub(x, y) ==
    IF x.t = "int" /\ y.t = "int" THEN PyInt(x.v - y.v)
    ELSE FloatAdd(ToFloat(x), PyNeg(ToFloat(y)))

\* max(x, y): the first argument unless the second is greater
PyMax(x, y) == IF NumLt(x, y) THEN y ELSE x

\* min(x, y): the first argument unless the second is smaller
PyMin(x, y) == IF NumLt(y, x) THEN y ELSE x

(***************************************************************************)
(* Outcomes of a call: a returned value or a raised exception.             *)
(***************************************************************************)
Ret(v) == [exc |-> "", val |-> v]

Raise(e) == [exc |-> e, val |-> None]

(***************************************************************************)
(* The named tuple.                                                        *)
(***************************************************************************)
_fields == <<"atEnd", "offset", "priority", "classSortOrder", "isNotGrace", "insertIndex">>

__new__(tupEls) == [t |-> "SortTuple", items |-> tupEls]

SortTuple(atEnd, offset, priority, classSortOrder, isNotGrace, insertIndex) ==
    __new__(<<atEnd, offset, priority, classSortOrder, isNotGrace, insertIndex>>)

PlainTuple(els) == [t |-> "tuple", items |-> els]

FieldIndex(attr) == CHOOSE i \in 1..Len(_fields) : _fields[i] = attr

getattr(self, attr) == self.items[FieldIndex(attr)]

IsSortTuple(x) == x.t = "SortTuple"

\* isinstance(other, tuple): a SortTuple is a tuple too
IsTuple(x) == x.t \in {"tuple", "SortTuple"}

ZeroSortTupleDefault == SortTuple(PyInt(0), PyFloat(0), PyInt(0), PyInt(0), PyInt(1), PyInt(0))

ZeroSortTupleLow == SortTuple(PyInt(0), PyFloat(0), NegINFINITY, PyInt(0), PyInt(1), PyInt(0))

ZeroSortTupleHigh == SortTuple(PyInt(0), PyFloat(0), INFINITY, PyInt(0), PyInt(1), PyInt(0))

(***************************************************************************)
(* Comparison of a number with any value, as the scalar branches of        *)
(* __eq__, __lt__ and __gt__ perform it.  A str or a tuple is unequal to   *)
(* every number and cannot be ordered against one (TypeError); a "raiser"  *)
(* is an object whose own comparison methods raise ValueError.             *)
(***************************************************************************)
PyCmp(op, x, y) ==
    IF IsNumber(y) THEN
        CASE op = "==" -> Ret(Bool(NumEq(x, y)))
          [] op = "!=" -> Ret(Bool(~NumEq(x, y)))
          [] op = "<" -> Ret(Bool(NumLt(x, y)))
          [] op = ">" -> Ret(Bool(NumLt(y, x)))
    ELSE IF y.t = "raiser" THEN Raise("ValueError")
    ELSE IF op = "==" THEN Ret(PyFalse)
    ELSE IF op = "!=" THEN Ret(PyTrue)
    ELSE Raise("TypeError")

\* try: ... except ValueError: return NotImplemented
ExceptValueError(outcome) ==
    IF outcome.exc = "ValueError" THEN Ret(NotImplemented) ELSE outcome

(***************************************************************************)
(* tuple.__eq__ / __lt__ / __gt__: the first differing item decides,       *)
(* otherwise the lengths do.                                               *)
(***************************************************************************)
RECURSIVE FirstDiff(_, _, _)
FirstDiff(v, w, i) ==
    IF i > Len(v) \/ i > Len(w) THEN 0
    ELSE IF ~NumEq(v[i], w[i]) THEN i
    ELSE FirstDiff(v, w, i + 1)

tuple__eq__(v, w) == Len(v) = Len(w) /\ FirstDiff(v, w, 1) = 0

tuple__lt__(v, w) ==
    LET i == FirstDiff(v, w, 1)
    IN  IF i = 0 THEN Len(v) < Len(w) ELSE NumLt(v[i], w[i])

tuple__gt__(v, w) ==
    LET i == FirstDiff(v, w, 1)
    IN  IF i = 0 THEN Len(v) > Len(w) ELSE NumLt(w[i], v[i])

(***************************************************************************)
(* SortTuple's comparison methods.                                         *)
(***************************************************************************)
\* __eq__ without the comparison with INFINITY: a key at the end equals no scalar
eq_AtEndNeverEqual(self, other) ==
    IF IsTuple(other) THEN Ret(Bool(tuple__eq__(self.items, other.items)))
    ELSE IF NumEq(getattr(self, "atEnd"), PyInt(1)) THEN Ret(PyFalse)
    ELSE ExceptValueError(PyCmp("==", getattr(self, "offset"), other))

__eq__(self, other) ==
    IF IsTuple(other) THEN Ret(Bool(tuple__eq__(self.items, other.items)))
    ELSE IF NumEq(getattr(self, "atEnd"), PyInt(1)) THEN
        ExceptValueError(
            LET ne == PyCmp("!=", INFINITY, other)
            IN  IF ne.exc # "" THEN ne
                ELSE IF Truthy(ne.val) THEN Ret(PyFalse)
                ELSE Ret(PyTrue))
    ELSE ExceptValueError(PyCmp("==", getattr(self, "offset"), other))

\* __lt__ delegating to the tuple's __gt__
lt_TupleBranchReversed(self, other) ==
    IF IsTuple(other) THEN Ret(Bool(tuple__gt__(self.items, other.items)))
    ELSE IF NumEq(getattr(self, "atEnd"), PyInt(1)) THEN Ret(PyFalse)
    ELSE ExceptValueError(PyCmp("<", getattr(self, "offset"), other))

__lt__(self, other) ==
    IF IsTuple(other) THEN Ret(Bool(tuple__lt__(self.items, other.items)))
    ELSE IF NumEq(getattr(self, "atEnd"), PyInt(1)) THEN Ret(PyFalse)
    ELSE ExceptValueError(PyCmp("<", getattr(self, "offset"), other))

\* __gt__ without the comparison with INFINITY: a key at the end exceeds every scalar
gt_AtEndAlwaysGreater(self, other) ==
    IF IsTuple(other) THEN Ret(Bool(tuple__gt__(self.items, other.items)))
    ELSE IF NumEq(getattr(self, "atEnd"), PyInt(1)) THEN Ret(PyTrue)
    ELSE ExceptValueError(PyCmp(">", getattr(self, "offset"), other))

__gt__(self, other) ==
    IF IsTuple(other) THEN Ret(Bool(tuple__gt__(self.items, other.items)))
    ELSE IF NumEq(getattr(self, "atEnd"), PyInt(1)) THEN
        ExceptValueError(
            LET ne == PyCmp("!=", INFINITY, other)
            IN  IF ne.exc # "" THEN ne
                ELSE IF Truthy(ne.val) THEN Ret(PyTrue)
                ELSE Ret(PyFalse))
    ELSE ExceptValueError(PyCmp(">", getattr(self, "offset"), other))

\* not self.__eq__(other)
__ne__(self, other) ==
    LET eq == __eq__(self, other)
    IN  IF eq.exc # "" THEN eq ELSE Ret(Bool(~Truthy(eq.val)))

\* self.__lt__(other) or self.__eq__(other)
__le__(self, other) ==
    LET lt == __lt__(self, other)
    IN  IF lt.exc # "" \/ Truthy(lt.val) THEN lt ELSE __eq__(self, other)

\* self.__gt__(other) or self.__eq__(other)
__ge__(self, other) ==
    LET gt == __gt__(self, other)
    IN  IF gt.exc # "" \/ Truthy(gt.val) THEN gt ELSE __eq__(self, other)

(***************************************************************************)
(* x == y, x < y, x > y as Python evaluates them on keys and bare          *)
(* offsets: the left operand's method when it is a SortTuple, the right    *)
(* operand's reflected method when only that one is (float's own method    *)
(* returns NotImplemented for a tuple), the numbers' comparison otherwise. *)
(***************************************************************************)
Equal(x, y) ==
    IF IsSortTuple(x) THEN __eq__(x, y)
    ELSE IF IsSortTuple(y) THEN __eq__(y, x)
    ELSE PyCmp("==", x, y)

Less(x, y) ==
    IF IsSortTuple(x) THEN __lt__(x, y)
    ELSE IF IsSortTuple(y) THEN __gt__(y, x)
    ELSE PyCmp("<", x, y)

Greater(x, y) ==
    IF IsSortTuple(x) THEN __gt__(x, y)
    ELSE IF IsSortTuple(y) THEN __lt__(y, x)
    ELSE PyCmp(">", x, y)

(***************************************************************************)
(* modify, add, sub: each builds outList over _fields and constructs a new *)
(* tuple from it positionally.                                             *)
(***************************************************************************)
\* modify that stops one field short and copies the receiver's last item
modify_SkipsLastField(self, keywords) ==
    LET outList == [i \in 1..Len(_fields) |->
                      IF i < Len(_fields) /\ _fields[i] \in DOMAIN keywords
                      THEN keywords[_fields[i]]
                      ELSE getattr(self, _fields[i])]
    IN  Ret(__new__(outList))

modify(self, keywords) ==
    LET outList == [i \in 1..Len(_fields) |->
                      IF _fields[i] \in DOMAIN keywords THEN keywords[_fields[i]]
                      ELSE getattr(self, _fields[i])]
    IN  Ret(__new__(outList))

\* add that accepts any tuple as its operand
add_AcceptsAnyTuple(self, other) ==
    IF ~IsTuple(other) THEN Raise("SortingException")
    ELSE LET outList == [i \in 1..Len(_fields) |->
                           IF _fields[i] \in {"atEnd", "isNotGrace"}
                           THEN PyMax(getattr(self, _fields[i]), getattr(other, _fields[i]))
                           ELSE PyAdd(getattr(self, _fields[i]), getattr(other, _fields[i]))]
         IN  Ret(__new__(outList))

\* add that sums the two flags like the other fields
add_SumsFlags(self, other) ==
    IF other.t # self.t THEN Raise("SortingException")
    ELSE LET outList == [i \in 1..Len(_fields) |->
                           PyAdd(getattr(self, _fields[i]), getattr(other, _fields[i]))]
         IN  Ret(__new__(outList))

add(self, other) ==
    IF other.t # self.t THEN Raise("SortingException")
    ELSE LET outList == [i \in 1..Len(_fields) |->
                           IF _fields[i] \in {"atEnd", "isNotGrace"}
                           THEN PyMax(getattr(self, _fields[i]), getattr(other, _fields[i]))
                           ELSE PyAdd(getattr(self, _fields[i]), getattr(other, _fields[i]))]
         IN  Ret(__new__(outList))

\* sub that takes the larger flag, as add does
sub_MaxFlags(self, other) ==
    IF other.t # self.t THEN Raise("SortingException")
    ELSE LET outList == [i \in 1..Len(_fields) |->
                           IF _fields[i] \in {"atEnd", "isNotGrace"}
                           THEN PyMax(getattr(self, _fields[i]), getattr(other, _fields[i]))
                           ELSE PySub(getattr(self, _fields[i]), getattr(other, _fields[i]))]
         IN  Ret(__new__(outList))

\* sub that subtracts the receiver from the operand
sub_ReversedOperands(self, other) ==
    IF other.t # self.t THEN Raise("SortingException")
    ELSE LET outList == [i \in 1..Len(_fields) |->
                           IF _fields[i] \in {"atEnd", "isNotGrace"}
                           THEN PyMin(getattr(self, _fields[i]), getattr(other, _fields[i]))
                           ELSE PySub(getattr(other, _fields[i]), getattr(self, _fields[i]))]
         IN  Ret(__new__(outList))

sub(self, other) ==
    IF other.t # self.t THEN Raise("SortingException")
    ELSE LET outList == [i \in 1..Len(_fields) |->
                           IF _fields[i] \in {"atEnd", "isNotGrace"}
                           THEN PyMin(getattr(self, _fields[i]), getattr(other, _fields[i]))
                           ELSE PySub(getattr(self, _fields[i]), getattr(other, _fields[i]))]
         IN  Ret(__new__(outList))

(***************************************************************************)
(* State.  heap holds the objects a caller has in hand, in allocation      *)
(* order; made[i] is the call that returned heap[i]; last is the most      *)
(* recent call with its outcome.                                           *)
(***************************************************************************)
NoKw == <<>>

Call(op, self, other, kw) == [op |-> op, self |-> self, other |-> other, kw |-> kw]

Done(op, self, other, kw, outcome) ==
    [op |-> op, self |-> self, other |-> other, kw |-> kw,
     exc |-> outcome.exc, val |-> outcome.val]

NoCall == Done("", 0, 0, NoKw, Ret(None))

\* the caller gets an object back exactly when the call returns one
Returned(call, outcome) ==
    /\ last' = Done(call.op, call.self, call.other, call.kw, outcome)
    /\ IF outcome.exc = ""
       THEN heap' = Append(heap, outcome.val) /\ made' = Append(made, call)
       ELSE UNCHANGED <<heap, made>>

(***************************************************************************)
(* Spec: arithmetic on keys.  The caller starts with two objects, a key    *)
(* and a key or some other value, and calls modify, add and sub on them    *)
(* and on the results.                                                     *)
(***************************************************************************)
\* the smallest float whose successor is two away
BigOffset == 2 ^ MantissaBits

InputKeys ==
    { ZeroSortTupleDefault, ZeroSortTupleLow, ZeroSortTupleHigh,
      SortTuple(PyInt(1), PyFloat(1), PyInt(4), PyInt(7), PyInt(0), PyInt(200)),
      SortTuple(PyInt(0), PyFloat(BigOffset), PyInt(0), PyInt(-20), PyInt(1), PyInt(0)) }

NonKeys ==
    { PyFloat(4),
      PlainTuple(<<PyInt(0), PyFloat(1), PyInt(0), PyInt(20), PyInt(1), PyInt(323)>>) }

Keywords ==
    { ("offset" :> PyFloat(2)),
      ("atEnd" :> PyInt(1)) @@ ("isNotGrace" :> PyInt(0)),
      ("insertIndex" :> PyInt(32)) @@ ("priority" :> PyInt(-1)),
      ("foo" :> PyInt(1)),
      ("classSortOrder" :> PyInt(5)) @@ ("offest" :> PyFloat(2)) }

Init ==
    /\ \E x \in InputKeys, y \in InputKeys \cup NonKeys : heap = <<x, y>>
    /\ made = <<Call("new", 0, 0, NoKw), Call("new", 0, 0, NoKw)>>
    /\ last = NoCall

Modify ==
    \E i \in DOMAIN heap, kw \in Keywords :
        /\ Len(heap) < MaxHeap
        /\ IsSortTuple(heap[i])
        /\ Returned(Call("modify", i, 0, kw), modify(heap[i], kw))

Add ==
    \E i, j \in DOMAIN heap :
        /\ Len(heap) < MaxHeap
        /\ IsSortTuple(heap[i])
        /\ Returned(Call("add", i, j, NoKw), add(heap[i], heap[j]))

Sub ==
    \E i, j \in DOMAIN heap :
        /\ Len(heap) < MaxHeap
        /\ IsSortTuple(heap[i])
        /\ Returned(Call("sub", i, j, NoKw), sub(heap[i], heap[j]))

Next == Modify \/ Add \/ Sub

Spec == Init /\ [][Next]_vars

(***************************************************************************)
(* SpecCmp: comparisons.  The caller holds three operands, each a key, a   *)
(* bare offset or some other value, and compares the first with the        *)
(* second; the third is there for the laws that relate three operands.     *)
(***************************************************************************)
FieldValues ==
    << {PyInt(0), PyInt(1)},
       {PyFloat(0), PyFloat(1)},
       {PyInt(0), INFINITY},
       {PyInt(0), PyInt(20)},
       {PyInt(1), PyInt(0)},
       {PyInt(0), PyInt(1)} >>

\* ZeroSortTupleLow and the keys that differ from ZeroSortTupleDefault in at
\* most MaxDiff fields
CmpKeys ==
    {ZeroSortTupleLow} \cup
    { __new__(<<a, o, p, c, g, n>>) :
        <<a, o, p, c, g, n>> \in
            { f \in FieldValues[1] \X FieldValues[2] \X FieldValues[3]
                    \X FieldValues[4] \X FieldValues[5] \X FieldValues[6] :
                Cardinality({ i \in 1..6 : f[i] # ZeroSortTupleDefault.items[i] }) <= MaxDiff } }

Scalars == { NegINFINITY, PyFloat(0), PyInt(1), INFINITY }

Str == [t |-> "str", v |-> 0]

Raiser == [t |-> "raiser", v |-> 0]

Others == { Str, Raiser, PlainTuple(<<PyInt(0), PyFloat(1)>>) }

InitCmp ==
    /\ \E x, y, z \in CmpKeys \cup Scalars \cup Others : heap = <<x, y, z>>
    /\ made = <<Call("new", 0, 0, NoKw), Call("new", 0, 0, NoKw), Call("new", 0, 0, NoKw)>>
    /\ last = NoCall

Compared(op, outcome) ==
    /\ last' = Done(op, 1, 2, NoKw, outcome)
    /\ UNCHANGED <<heap, made>>

Eq == IsSortTuple(heap[1]) /\ Compared("__eq__", __eq__(heap[1], heap[2]))

Lt == IsSortTuple(heap[1]) /\ Compared("__lt__", __lt__(heap[1], heap[2]))

Gt == IsSortTuple(heap[1]) /\ Compared("__gt__", __gt__(heap[1], heap[2]))

Ne == IsSortTuple(heap[1]) /\ Compared("__ne__", __ne__(heap[1], heap[2]))

Le == IsSortTuple(heap[1]) /\ Compared("__le__", __le__(heap[1], heap[2]))

Ge == IsSortTuple(heap[1]) /\ Compared("__ge__", __ge__(heap[1], heap[2]))

\* a bare offset on the left: 5.0 > st, 3.0 < st
OffsetEq ==
    IsNumber(heap[1]) /\ IsSortTuple(heap[2]) /\ Compared("==", Equal(heap[1], heap[2]))

OffsetLt ==
    IsNumber(heap[1]) /\ IsSortTuple(heap[2]) /\ Compared("<", Less(heap[1], heap[2]))

OffsetGt ==
    IsNumber(heap[1]) /\ IsSortTuple(heap[2]) /\ Compared(">", Greater(heap[1], heap[2]))

NextCmp == Eq \/ Lt \/ Gt \/ Ne \/ Le \/ Ge \/ OffsetEq \/ OffsetLt \/ OffsetGt

SpecCmp == InitCmp /\ [][NextCmp]_vars

(***************************************************************************)
(* Vocabulary of the properties.                                           *)
(***************************************************************************)
FieldNames == { _fields[i] : i \in 1..Len(_fields) }

FlagFields == {"atEnd", "isNotGrace"}

NumericFields == {"offset", "priority", "classSortOrder", "insertIndex"}

IsTrue(outcome) == outcome.exc = "" /\ outcome.val = PyTrue

IsBool(outcome) == outcome.exc = "" /\ outcome.val \in {PyTrue, PyFalse}

ExactlyOne(p, q, r) == (p /\ ~q /\ ~r) \/ (~p /\ q /\ ~r) \/ (~p /\ ~q /\ r)

\* the lexicographic order over (atEnd, offset, priority, classSortOrder,
\* isNotGrace, insertIndex)
LexLess(a, b) ==
    \/ NumLt(getattr(a, "atEnd"), getattr(b, "atEnd"))
    \/ /\ NumEq(getattr(a, "atEnd"), getattr(b, "atEnd"))
       /\ \/ NumLt(getattr(a, "offset"), getattr(b, "offset"))
          \/ /\ NumEq(getattr(a, "offset"), getattr(b, "offset"))
             /\ \/ NumLt(getattr(a, "priority"), getattr(b, "priority"))
                \/ /\ NumEq(getattr(a, "priority"), getattr(b, "priority"))
                   /\ \/ NumLt(getattr(a, "classSortOrder"), getattr(b, "classSortOrder"))
                      \/ /\ NumEq(getattr(a, "classSortOrder"), getattr(b, "classSortOrder"))
                         /\ \/ NumLt(getattr(a, "isNotGrace"), getattr(b, "isNotGrace"))
                            \/ /\ NumEq(getattr(a, "isNotGrace"), getattr(b, "isNotGrace"))
                               /\ NumLt(getattr(a, "insertIndex"), getattr(b, "insertIndex"))

FieldsEqual(a, b) == \A f \in FieldNames : NumEq(getattr(a, f), getattr(b, f))

\* the effective position of a key: +infinity at the end, else its offset
Eff(k) == IF getattr(k, "atEnd") = PyInt(1) THEN INFINITY ELSE getattr(k, "offset")

\* the comparison of two extended reals that a method name stands for
RealCmp(op, e, x) ==
    CASE op = "__eq__" -> NumEq(e, x)
      [] op = "__ne__" -> ~NumEq(e, x)
      [] op = "__lt__" -> NumLt(e, x)
      [] op = "__le__" -> NumLt(e, x) \/ NumEq(e, x)
      [] op = "__gt__" -> NumLt(x, e)
      [] op = "__ge__" -> NumLt(x, e) \/ NumEq(e, x)

Methods == {"__eq__", "__ne__", "__lt__", "__le__", "__gt__", "__ge__"}

\* the three comparisons of the order, with a key or an offset on the left
Compared3 == {"__eq__", "__lt__", "__gt__", "==", "<", ">"}

\* an operand of the mixed order: a key or a real scalar
IsOperand(x) == IsSortTuple(x) \/ IsReal(x)

Flags01(k) ==
    /\ getattr(k, "atEnd") \in {PyInt(0), PyInt(1)}
    /\ getattr(k, "isNotGrace") \in {PyInt(0), PyInt(1)}

FiniteNumeric(k) == \A f \in NumericFields : IsFinite(getattr(k, f))

(* C1: comparing two keys is the lexicographic order over the six fields   *)
(* in their declared order: it returns a boolean, exactly one of a<b,      *)
(* a==b, a>b holds, a==b holds iff all six fields are equal, a key with    *)
(* atEnd=0 is below every key with atEnd=1, and a<b and b<c give a<c.      *)
C1_KeyOrderIsLexicographicTotal ==
    LET a == heap[1]
        b == heap[2]
        c == heap[3]
        lt == __lt__(a, b)
        eq == __eq__(a, b)
        gt == __gt__(a, b)
    IN  (IsSortTuple(a) /\ IsSortTuple(b)) =>
            /\ IsBool(lt) /\ IsBool(eq) /\ IsBool(gt)
            /\ ExactlyOne(IsTrue(lt), IsTrue(eq), IsTrue(gt))
            /\ IsTrue(lt) <=> LexLess(a, b)
            /\ IsTrue(gt) <=> LexLess(b, a)
            /\ IsTrue(eq) <=> FieldsEqual(a, b)
            /\ (getattr(a, "atEnd") = PyInt(0) /\ getattr(b, "atEnd") = PyInt(1)) => IsTrue(lt)
            /\ (IsSortTuple(c) /\ IsTrue(lt) /\ IsTrue(__lt__(b, c))) => IsTrue(__lt__(a, c))
            /\ last.op = "__lt__" => (last.exc = "" /\ last.val = Bool(LexLess(a, b)))
            /\ last.op = "__gt__" => (last.exc = "" /\ last.val = Bool(LexLess(b, a)))
            /\ last.op = "__eq__" => (last.exc = "" /\ last.val = Bool(FieldsEqual(a, b)))

\* a < b was computed for a not at the end with the larger offset and b at
\* the end, and a third key lies above b
C1_Witness ==
    /\ IsSortTuple(heap[1]) /\ IsSortTuple(heap[2]) /\ IsSortTuple(heap[3])
    /\ last.op = "__lt__" /\ last.val = PyTrue
    /\ getattr(heap[1], "atEnd") = PyInt(0) /\ getattr(heap[2], "atEnd") = PyInt(1)
    /\ NumLt(getattr(heap[2], "offset"), getattr(heap[1], "offset"))
    /\ IsTrue(__lt__(heap[2], heap[3]))

(* C2: comparing a key k with a real scalar x (+-infinity included) by any *)
(* of the six operators returns the boolean that comparing k's effective   *)
(* position with x gives, whatever k's other fields are; <= is < or ==,    *)
(* >= is > or ==.                                                          *)
C2_ScalarComparisonByEffectivePosition ==
    LET k == heap[1]
        x == heap[2]
    IN  (last.op \in Methods /\ IsSortTuple(k) /\ IsReal(x)) =>
            /\ last.exc = ""
            /\ last.val = Bool(RealCmp(last.op, Eff(k), x))
            /\ last.op = "__le__" => (last.val = PyTrue <=> (IsTrue(__lt__(k, x)) \/ IsTrue(__eq__(k, x))))
            /\ last.op = "__ge__" => (last.val = PyTrue <=> (IsTrue(__gt__(k, x)) \/ IsTrue(__eq__(k, x))))
            /\ last.op = "__ne__" => (last.val = PyTrue <=> ~IsTrue(__eq__(k, x)))

\* k >= +infinity was computed for a key at the end with a non-default
\* priority, and held
C2_Witness ==
    /\ IsSortTuple(heap[1])
    /\ heap[2] = INFINITY
    /\ getattr(heap[1], "atEnd") = PyInt(1)
    /\ getattr(heap[1], "priority") # PyInt(0)
    /\ last.op = "__ge__" /\ last.val = PyTrue

(* C3: over keys and real scalars together, once a and b have been         *)
(* compared, exactly one of a<b, a==b, a>b holds, a<b and b<c give a<c,    *)
(* and a==b and b==c give a==c.                                            *)
C3_MixedOrderIsTotalAndTransitive ==
    LET a == heap[1]
        b == heap[2]
        c == heap[3]
    IN  (last.op \in Compared3 /\ IsOperand(a) /\ IsOperand(b) /\ IsOperand(c)) =>
            /\ ExactlyOne(IsTrue(Less(a, b)), IsTrue(Equal(a, b)), IsTrue(Greater(a, b)))
            /\ (IsTrue(Less(a, b)) /\ IsTrue(Less(b, c))) => IsTrue(Less(a, c))
            /\ (IsTrue(Equal(a, b)) /\ IsTrue(Equal(b, c))) => IsTrue(Equal(a, c))

(* C3 as amended: as above, except that two keys equal to the same scalar  *)
(* need not be equal to each other; they have the same effective position. *)
C3_MixedOrderAmended ==
    LET a == heap[1]
        b == heap[2]
        c == heap[3]
    IN  (last.op \in Compared3 /\ IsOperand(a) /\ IsOperand(b) /\ IsOperand(c)) =>
            /\ ExactlyOne(IsTrue(Less(a, b)), IsTrue(Equal(a, b)), IsTrue(Greater(a, b)))
            /\ (IsTrue(Less(a, b)) /\ IsTrue(Less(b, c))) => IsTrue(Less(a, c))
            /\ (IsTrue(Equal(a, b)) /\ IsTrue(Equal(b, c))) =>
                    IF IsSortTuple(a) /\ IsReal(b) /\ IsSortTuple(c)
                    THEN NumEq(Eff(a), Eff(c))
                    ELSE IsTrue(Equal(a, c))
            /\ last.op = "<" => (last.exc = "" /\ last.val = Bool(NumLt(a, Eff(b))))
            /\ last.op = ">" => (last.exc = "" /\ last.val = Bool(NumLt(Eff(b), a)))
            /\ last.op = "==" => (last.exc = "" /\ last.val = Bool(NumEq(a, Eff(b))))

\* offset < key was computed and held, and the key is below a third key
\* with the same effective position
C3_Witness ==
    /\ IsReal(heap[1]) /\ IsSortTuple(heap[2]) /\ IsSortTuple(heap[3])
    /\ last.op = "<" /\ last.val = PyTrue
    /\ IsTrue(Less(heap[2], heap[3]))
    /\ NumEq(Eff(heap[2]), Eff(heap[3]))

(* C8: == , < and > of a key with an operand that is neither a key nor a   *)
(* number (here: a str) return NotImplemented: no exception, no boolean.   *)
C8_UnsupportedOperandIsNotImplemented ==
    (last.op \in {"__eq__", "__lt__", "__gt__"} /\ heap[2] = Str) =>
        (last.exc = "" /\ last.val = NotImplemented)

(* C4: a.add(b) of two keys returns the key whose atEnd and isNotGrace are *)
(* the larger of the operands' and whose other four fields are their sums; *)
(* a.sub(b) the key with the smaller flags and the differences.  The call  *)
(* allocates the result and leaves every existing object as it was.        *)
C4_AddSubFieldwise ==
    [][ (last'.op \in {"add", "sub"} /\ IsSortTuple(heap[last'.other])) =>
            LET a == heap[last'.self]
                b == heap[last'.other]
                r == last'.val
            IN  /\ last'.exc = ""
                /\ IsSortTuple(r)
                /\ Len(r.items) = Len(_fields)
                /\ \A f \in FlagFields :
                      /\ getattr(r, f) \in {getattr(a, f), getattr(b, f)}
                      /\ IF last'.op = "add"
                         THEN ~NumLt(getattr(r, f), getattr(a, f)) /\ ~NumLt(getattr(r, f), getattr(b, f))
                         ELSE ~NumLt(getattr(a, f), getattr(r, f)) /\ ~NumLt(getattr(b, f), getattr(r, f))
                /\ \A f \in NumericFields :
                      getattr(r, f) = IF last'.op = "add"
                                      THEN PyAdd(getattr(a, f), getattr(b, f))
                                      ELSE PySub(getattr(a, f), getattr(b, f))
                /\ heap' = Append(heap, r)
      ]_vars

\* the flag-clamping case: a (atEnd=0, isNotGrace=1) minus b (atEnd=1,
\* isNotGrace=0) was computed, with a non-zero difference of offsets
C4_Witness ==
    /\ last.op = "sub" /\ last.exc = ""
    /\ getattr(heap[last.self], "atEnd") = PyInt(0)
    /\ getattr(heap[last.self], "isNotGrace") = PyInt(1)
    /\ getattr(heap[last.other], "atEnd") = PyInt(1)
    /\ getattr(heap[last.other], "isNotGrace") = PyInt(0)
    /\ getattr(last.val, "atEnd") = PyInt(0)
    /\ getattr(last.val, "isNotGrace") = PyInt(0)
    /\ getattr(last.val, "offset") # getattr(heap[last.self], "offset")
    /\ heap[Len(heap)] = last.val

(* C5: a.modify(...) with recognized field names returns a new key whose   *)
(* named fields hold the given values and whose other fields are a's; the  *)
(* call allocates the result and leaves a and every other existing object  *)
(* as it was, at every call of a behaviour.                                *)
C5_ModifyOverridesNamedFieldsOnly ==
    [][ (last'.op = "modify" /\ DOMAIN last'.kw \subseteq FieldNames) =>
            LET a == heap[last'.self]
                r == last'.val
            IN  /\ last'.exc = ""
                /\ IsSortTuple(r)
                /\ Len(r.items) = Len(_fields)
                /\ \A f \in FieldNames :
                      getattr(r, f) = IF f \in DOMAIN last'.kw THEN last'.kw[f] ELSE getattr(a, f)
                /\ heap' = Append(heap, r)
      ]_vars

\* modify(atEnd=1, isNotGrace=0) was called on the result of an earlier
\* modify, whose receiver is still in the heap with its own field values
C5_Witness ==
    /\ last.op = "modify" /\ last.exc = ""
    /\ DOMAIN last.kw = {"atEnd", "isNotGrace"}
    /\ made[last.self].op = "modify"
    /\ getattr(heap[last.self], "isNotGrace") = PyInt(1)
    /\ getattr(last.val, "isNotGrace") = PyInt(0)
    /\ getattr(heap[made[last.self].self], "offset") # getattr(last.val, "offset")

(* C6: modify called with a field name that is not one of the six fields   *)
(* raises an error and returns no key.                                     *)
C6_ModifyRejectsUnknownField ==
    (last.op = "modify" /\ ~(DOMAIN last.kw \subseteq FieldNames)) =>
        (last.exc # "" /\ last.val = None)

(* C7: add and sub called with an operand that is not a SortTuple raise    *)
(* SortingException: nothing is returned, nothing is allocated and no      *)
(* existing object changes.                                                *)
C7_AddSubRejectNonKeys ==
    [][ (last'.op \in {"add", "sub"} /\ ~IsSortTuple(heap[last'.other])) =>
            /\ last'.exc = "SortingException"
            /\ last'.val = None
            /\ heap' = heap
      ]_vars

\* add was called with a plain six-item tuple and raised
C7_Witness ==
    /\ last.op = "add"
    /\ heap[last.other].t = "tuple"
    /\ Len(heap[last.other].items) = Len(_fields)
    /\ last.exc = "SortingException"

\* r == heap[i] was returned by op2 on the result s of op1, both with the
\* same operand b
RoundTrip(i, op1, op2) ==
    /\ made[i].op = op2
    /\ made[made[i].self].op = op1
    /\ made[made[i].self].other = made[i].other

\* the integer the exact sum (difference) of two finite numbers is
ExactSum(op, x, y) == IF op = "add" THEN x.v + y.v ELSE x.v - y.v

(* C9: for keys a and b with finite numeric fields, a.add(b).sub(b) and    *)
(* a.sub(b).add(b) have the offset, priority, classSortOrder and           *)
(* insertIndex of a.                                                       *)
C9_SubInvertsAdd ==
    \A i \in DOMAIN heap : \A ops \in {<<"add", "sub">>, <<"sub", "add">>} :
        RoundTrip(i, ops[1], ops[2]) =>
            LET s == heap[made[i].self]
                a == heap[made[made[i].self].self]
                b == heap[made[i].other]
            IN  (FiniteNumeric(a) /\ FiniteNumeric(b)) =>
                    \A f \in NumericFields : NumEq(getattr(heap[i], f), getattr(a, f))

(* C9 as amended: the round trip returns a's field wherever the            *)
(* intermediate sum (difference) of that field was computed exactly.       *)
C9_SubInvertsExactAdd ==
    \A i \in DOMAIN heap : \A ops \in {<<"add", "sub">>, <<"sub", "add">>} :
        RoundTrip(i, ops[1], ops[2]) =>
            LET s == heap[made[i].self]
                a == heap[made[made[i].self].self]
                b == heap[made[i].other]
            IN  (FiniteNumeric(a) /\ FiniteNumeric(b)) =>
                    \A f \in NumericFields :
                        (/\ IsFinite(getattr(s, f))
                         /\ getattr(s, f).v = ExactSum(ops[1], getattr(a, f), getattr(b, f)))
                            => NumEq(getattr(heap[i], f), getattr(a, f))

\* a.add(b).sub(b) was computed for finite keys with non-zero offsets whose
\* sums are all exact
C9_Witness ==
    \E i \in DOMAIN heap :
        /\ RoundTrip(i, "add", "sub")
        /\ LET s == heap[made[i].self]
               a == heap[made[made[i].self].self]
               b == heap[made[i].other]
           IN  /\ FiniteNumeric(a) /\ FiniteNumeric(b)
               /\ getattr(a, "offset").v # 0 /\ getattr(b, "offset").v # 0
               /\ getattr(b, "insertIndex").v # 0
               /\ \A f \in NumericFields :
                     getattr(s, f).v = ExactSum("add", getattr(a, f), getattr(b, f))

(* C10: if every key the caller constructed or made with modify has atEnd  *)
(* and isNotGrace in {0, 1}, so has every key that add and sub return,     *)
(* however the calls are chained.                                          *)
C10_FlagsStayBoolean ==
    (\A i \in DOMAIN heap :
        (made[i].op \in {"new", "modify"} /\ IsSortTuple(heap[i])) => Flags01(heap[i]))
    => (\A i \in DOMAIN heap : IsSortTuple(heap[i]) => Flags01(heap[i]))

\* add was called on the result of an earlier add or sub with atEnd = 1 on
\* both sides, and with isNotGrace = 1 on both sides of that earlier call
C10_Witness ==
    \E i \in DOMAIN heap :
        /\ made[i].op = "add"
        /\ made[made[i].self].op \in {"add", "sub"}
        /\ getattr(heap[made[i].self], "atEnd") = PyInt(1)
        /\ getattr(heap[made[i].other], "atEnd") = PyInt(1)
        /\ getattr(heap[i], "atEnd") = PyInt(1)

====
